---- MODULE Spec2Model ----
(***************************************************************************)
(* A model of co2.js: the carbon estimate of a MongoDB Atlas project.      *)
(*                                                                         *)
(* JavaScript strings that the program upper-cases, strips or parses are   *)
(* sequences of one-character strings; strings it only compares with ===   *)
(* (instance sizes, metric names, cluster names) are TLA+ strings.         *)
(* JavaScript numbers are fixed-point values that may be NaN:              *)
(*   [nan |-> BOOLEAN, v |-> thousandths]                                  *)
(* and an energy is a natural number of 10^-13 grams, kept as a sequence   *)
(* of base-1000 limbs (least significant first), since it does not fit a   *)
(* machine integer of the model checker.                                   *)
(***************************************************************************)
EXTENDS Integers, Sequences, FiniteSets, TLC

VARIABLES
    cloudProviders,   \* line 8: rows of cloudProviders_datacenters.csv
    ciAggregated,     \* line 9: rows of CI_aggregated.csv
    atlas,            \* what the Atlas API answers to groups/<id>/clusters
    pc,               \* where main() is
    clusters,         \* line 95/100: the cluster list main() holds
    processes,        \* line 98: the process descriptors
    tasks,            \* line 152: one async callback per process
    all,              \* line 152: the Promise.all over the callbacks
    stderr,           \* line 78: number of console.error calls of fetch
    totalCarbon       \* line 191/193: the reported total, or NoReport

vars == <<cloudProviders, ciAggregated, atlas, pc, clusters, processes,
          tasks, all, stderr, totalCarbon>>

-----------------------------------------------------------------------------
(* JavaScript values *)

Undefined == [t |-> "undefined", s |-> <<>>]

JsStr(s) == [t |-> "string", s |-> s]

\* row[i] of a JavaScript array of strings, i counted from 0
At(row, i) == IF i + 1 <= Len(row) THEN JsStr(row[i + 1]) ELSE Undefined

NaN == [nan |-> TRUE, v |-> 0]

Num(x) == [nan |-> FALSE, v |-> x]

IsNumeric(n) == ~n.nan

\* String.prototype.toUpperCase, on the letters the model's inputs use
UpperChar(c) ==
    CASE c = "a" -> "A" [] c = "w" -> "W" [] c = "s" -> "S"
      [] c = "g" -> "G" [] c = "c" -> "C" [] c = "p" -> "P"
      [] c = "z" -> "Z" [] c = "u" -> "U" [] c = "r" -> "R"
      [] c = "e" -> "E" [] c = "i" -> "I" [] c = "b" -> "B"
      [] c = "m" -> "M" [] c = "x" -> "X"
      [] OTHER -> c

toUpperCase(s) == [i \in 1..Len(s) |-> UpperChar(s[i])]

IsSeparator(c) == c \in {"_", "-", " "}

\* s.replace(/(_|-| )/, ""), without the g flag: the first separator only
StripFirstSeparator(s) ==
    LET idx == {i \in 1..Len(s) : IsSeparator(s[i])}
    IN  IF idx = {} THEN s
        ELSE LET k == CHOOSE i \in idx : \A j \in idx : i <= j
             IN  SubSeq(s, 1, k - 1) \o SubSeq(s, k + 1, Len(s))

RECURSIVE StripSeparators(_)
\* s.replace(/(_|-| )/g, "")
StripSeparators(s) ==
    IF s = <<>> THEN <<>>
    ELSE IF IsSeparator(Head(s)) THEN StripSeparators(Tail(s))
    ELSE <<Head(s)>> \o StripSeparators(Tail(s))

IsDigit(c) == c \in {"0", "1", "2", "3", "4", "5", "6", "7", "8", "9"}

DigitVal(c) ==
    CASE c = "0" -> 0 [] c = "1" -> 1 [] c = "2" -> 2 [] c = "3" -> 3
      [] c = "4" -> 4 [] c = "5" -> 5 [] c = "6" -> 6 [] c = "7" -> 7
      [] c = "8" -> 8 [] c = "9" -> 9

RECURSIVE SkipSpaces(_)
SkipSpaces(s) ==
    IF s # <<>> /\ Head(s) = " " THEN SkipSpaces(Tail(s)) ELSE s

RECURSIVE DigitPrefix(_)
DigitPrefix(s) ==
    IF s # <<>> /\ IsDigit(Head(s)) THEN <<Head(s)>> \o DigitPrefix(Tail(s))
    ELSE <<>>

RECURSIVE IntVal(_, _)
\* the value of a digit string, acc carrying the digits read so far
IntVal(ds, acc) ==
    IF ds = <<>> THEN acc ELSE IntVal(Tail(ds), acc * 10 + DigitVal(Head(ds)))

\* the first three fraction digits, as thousandths
FracMilli(ds) ==
    LET d(i) == IF i <= Len(ds) THEN DigitVal(ds[i]) ELSE 0
    IN  d(1) * 100 + d(2) * 10 + d(3)

\* parseFloat of a string without sign or exponent: leading blanks are
\* skipped, the longest prefix digits[.digits] or .digits is read, and a
\* string with no such prefix is NaN
ParseFloatStr(s) ==
    LET t    == SkipSpaces(s)
        ip   == DigitPrefix(t)
        rest == SubSeq(t, Len(ip) + 1, Len(t))
        fp   == IF rest # <<>> /\ Head(rest) = "." THEN DigitPrefix(Tail(rest))
                ELSE <<>>
    IN  IF ip = <<>> /\ fp = <<>> THEN NaN
        ELSE Num(IntVal(ip, 0) * 1000 + FracMilli(fp))

\* parseFloat(x): undefined is converted to the string "undefined" first
parseFloat(x) == IF x.t = "undefined" THEN NaN ELSE ParseFloatStr(x.s)

-----------------------------------------------------------------------------
(* Natural numbers beyond the machine integer: base-1000 limbs *)

RECURSIVE BigNorm(_)
\* drop the most significant zero limbs
BigNorm(a) ==
    IF a # <<>> /\ a[Len(a)] = 0 THEN BigNorm(SubSeq(a, 1, Len(a) - 1)) ELSE a

RECURSIVE BigOfInt(_)
BigOfInt(n) == IF n = 0 THEN <<>> ELSE <<n % 1000>> \o BigOfInt(n \div 1000)

RECURSIVE BigMulCarry(_, _, _)
BigMulCarry(a, k, carry) ==
    IF a = <<>> THEN BigOfInt(carry)
    ELSE LET t == a[1] * k + carry
         IN  <<t % 1000>> \o BigMulCarry(Tail(a), k, t \div 1000)

\* a * k for a limb sequence a and 0 <= k < 2 * 10^6
BigMulInt(a, k) == BigNorm(BigMulCarry(a, k, 0))

RECURSIVE BigAddCarry(_, _, _)
BigAddCarry(a, b, carry) ==
    IF a = <<>> /\ b = <<>> THEN BigOfInt(carry)
    ELSE LET x == IF a = <<>> THEN 0 ELSE a[1]
             y == IF b = <<>> THEN 0 ELSE b[1]
             t == x + y + carry
         IN  <<t % 1000>>
             \o BigAddCarry(IF a = <<>> THEN a ELSE Tail(a),
                            IF b = <<>> THEN b ELSE Tail(b), t \div 1000)

BigAdd(a, b) == BigNorm(BigAddCarry(a, b, 0))

\* a JavaScript number that holds an energy
BigNaN == [nan |-> TRUE, big |-> <<>>]

BigNum(a) == [nan |-> FALSE, big |-> a]

\* x + y of two energies (line 191)
JsAdd(x, y) == IF x.nan \/ y.nan THEN BigNaN ELSE BigNum(BigAdd(x.big, y.big))

-----------------------------------------------------------------------------
(* Reference data (lines 4, 8, 9) *)

\* line 121/125: the carbon intensity used when none is found, gCO2e/kWh
FallbackCI == 475

\* the AZURE line (112) left out
DefaultPUENoAzure(providerName) ==
    IF providerName = <<"A", "W", "S">> THEN 1200
    ELSE IF providerName = <<"G", "C", "P">> THEN 1110
    ELSE 1670

\* lines 110-113: the PUE of a provider (name already upper-cased), thousandths
DefaultPUE(providerName) ==
    IF providerName = <<"A", "W", "S">> THEN 1200
    ELSE IF providerName = <<"A", "Z", "U", "R", "E">> THEN 1125
    ELSE IF providerName = <<"G", "C", "P">> THEN 1110
    ELSE 1670

\* line 118: the callback of cloudProviders.find on row c; c[1] of a row of
\* one field is undefined and c[1].toUpperCase() throws a TypeError
RowMatch(c, providerName, regionName) ==
    IF toUpperCase(c[1]) # providerName THEN "false"
    ELSE IF Len(c) < 2 THEN "throw"
    ELSE IF StripSeparators(toUpperCase(c[2])) = StripSeparators(regionName)
         THEN "true"
    ELSE "false"

NoRow == [kind |-> "none", row |-> <<>>]

RECURSIVE FindFrom(_, _, _, _)
\* Array.prototype.find (line 117) from index i on: the first row whose
\* callback is true; a throwing callback ends the search
FindFrom(rows, i, providerName, regionName) ==
    IF i > Len(rows) THEN NoRow
    ELSE LET m == RowMatch(rows[i], providerName, regionName)
         IN  IF m = "true" THEN [kind |-> "found", row |-> rows[i]]
             ELSE IF m = "throw" THEN [kind |-> "throw", row |-> <<>>]
             ELSE FindFrom(rows, i + 1, providerName, regionName)

RECURSIVE FindProviderFrom(_, _, _)
FindProviderFrom(rows, i, providerName) ==
    IF i > Len(rows) THEN NoRow
    ELSE IF toUpperCase(rows[i][1]) = providerName
      THEN [kind |-> "found", row |-> rows[i]]
    ELSE FindProviderFrom(rows, i + 1, providerName)

\* the region test of line 118 left out: the first row of the provider
FindCloudProviderAnyRegion(rows, providerName, regionName) ==
    FindProviderFrom(rows, 1, providerName)

\* line 117-119
FindCloudProvider(rows, providerName, regionName) ==
    FindFrom(rows, 1, providerName, regionName)

RECURSIVE FindCiFrom(_, _, _)
\* line 124: ciAggregated.find(ci => ci[0] === cloudProvider[2])
FindCiFrom(rows, i, key) ==
    IF i > Len(rows) THEN NoRow
    ELSE IF At(rows[i], 0) = key THEN [kind |-> "found", row |-> rows[i]]
    ELSE FindCiFrom(rows, i + 1, key)

FindCi(rows, key) == FindCiFrom(rows, 1, key)

\* line 123: the PUE once a datacenter row is found
RowPUE(cloudProvider, PUE) ==
    IF At(cloudProvider, 6) # JsStr(<<>>) THEN parseFloat(At(cloudProvider, 6))
    ELSE PUE

\* lines 124-125: the carbon intensity once a datacenter row is found
RowCI(cloudProvider, ciRows) ==
    LET ci == FindCi(ciRows, At(cloudProvider, 2))
    IN  IF ci.kind = "found" THEN parseFloat(At(ci.row, 4))
        ELSE Num(FallbackCI * 1000)

\* lines 107-129: the PUE and carbon intensity of a cluster, or the
\* TypeError of line 118
Resolve(ps, dcRows, ciRows) ==
    LET providerName == toUpperCase(ps.providerName)
        regionName   == toUpperCase(ps.regionName)
        PUE          == Num(DefaultPUE(providerName))
        found        == FindCloudProvider(dcRows, providerName, regionName)
    IN  IF found.kind = "throw"
          THEN [kind |-> "throw", PUE |-> NaN, gCO2ekWh |-> NaN]
        ELSE IF found.kind = "found"
          THEN [kind |-> "ok", PUE |-> RowPUE(found.row, PUE),
                gCO2ekWh |-> RowCI(found.row, ciRows)]
        ELSE [kind |-> "ok", PUE |-> PUE, gCO2ekWh |-> Num(FallbackCI * 1000)]

\* line 4: hardwareSpec[instanceSizeName][providerName], the provider name
\* as the API spells it; Missing where either lookup gives undefined
HardwareSpec(instanceSizeName, providerName) ==
    IF instanceSizeName = "M10" /\ providerName = <<"A", "W", "S">>
      THEN [kind |-> "ok", CPU |-> 2, memory |-> 2]
    ELSE IF instanceSizeName = "M10" /\ providerName = <<"G", "C", "P">>
      THEN [kind |-> "ok", CPU |-> 2, memory |-> 2]
    ELSE IF instanceSizeName = "M30" /\ providerName = <<"A", "W", "S">>
      THEN [kind |-> "ok", CPU |-> 2, memory |-> 8]
    ELSE [kind |-> "missing", CPU |-> 0, memory |-> 0]

-----------------------------------------------------------------------------
(* The cluster map, lines 100-148 *)

\* "M0" left out of line 102
IsLowTierNoM0(instance) == instance = "M2" \/ instance = "M5"

\* line 102
IsLowTier(instance) == instance = "M0" \/ instance = "M2" \/ instance = "M5"

RECURSIVE RemoveFirst(_, _)
\* line 135: uri.replace("mongodb://", ""), the URI as a sequence of tokens
RemoveFirst(uri, tok) ==
    IF uri = <<>> THEN <<>>
    ELSE IF Head(uri) = tok THEN Tail(uri)
    ELSE <<Head(uri)>> \o RemoveFirst(Tail(uri), tok)

RECURSIVE SplitFrom(_, _, _)
\* line 135: s.split(","), cur the piece being read
SplitFrom(s, cur, tok) ==
    IF s = <<>> THEN <<cur>>
    ELSE IF Head(s) = tok THEN <<cur>> \o SplitFrom(Tail(s), <<>>, tok)
    ELSE SplitFrom(Tail(s), Append(cur, Head(s)), tok)

Split(s, tok) == SplitFrom(s, <<>>, tok)

\* lines 135-146: the descriptors one cluster pushes
ClusterProcesses(c, r) ==
    LET clusterProcesses == Split(RemoveFirst(c.mongoURI, "mongodb://"), ",")
    IN  [i \in 1..Len(clusterProcesses) |->
            [id               |-> clusterProcesses[i],
             cluster          |-> c.name,
             providerSettings |-> c.providerSettings,
             diskSizeGb       |-> c.diskSizeGB,
             PUE              |-> r.PUE,
             gCO2ekWh         |-> r.gCO2ekWh]]

RECURSIVE MapClusters(_, _, _, _, _)
\* lines 100-148: clusters.map(...).filter(c => c) from cluster i on, with
\* the clusters kept and the processes pushed so far
MapClusters(cs, i, kept, procs, tables) ==
    IF i > Len(cs) THEN [kind |-> "ok", clusters |-> kept, processes |-> procs]
    ELSE IF IsLowTier(cs[i].providerSettings.instanceSizeName)
      THEN MapClusters(cs, i + 1, kept, procs, tables)
    ELSE LET r == Resolve(cs[i].providerSettings, tables[1], tables[2])
         IN  IF r.kind = "throw"
               THEN [kind |-> "throw", clusters |-> cs, processes |-> procs]
             ELSE MapClusters(cs, i + 1, Append(kept, cs[i]),
                              procs \o ClusterProcesses(cs[i], r), tables)

-----------------------------------------------------------------------------
(* Measurements, lines 13-62 *)

MemoryMetric == "SYSTEM_MEMORY_AVAILABLE"

\* lines 17-26, in the order of Object.values(METRICS.CPU)
CpuMetrics ==
    <<"SYSTEM_NORMALIZED_CPU_USER", "SYSTEM_NORMALIZED_CPU_KERNEL",
      "SYSTEM_NORMALIZED_CPU_NICE", "SYSTEM_NORMALIZED_CPU_IOWAIT",
      "SYSTEM_NORMALIZED_CPU_IRQ", "SYSTEM_NORMALIZED_CPU_SOFTIRQ",
      "SYSTEM_NORMALIZED_CPU_GUEST", "SYSTEM_NORMALIZED_CPU_STEAL">>

\* line 31
RunningTimeHours == 24

Throw == [kind |-> "throw", v |-> NaN]

RECURSIVE FindMetric(_, _, _)
FindMetric(ms, i, metric) ==
    IF i > Len(ms) THEN [kind |-> "throw", dataPoints |-> <<>>]
    ELSE IF ms[i].name = metric
      THEN [kind |-> "ok", dataPoints |-> ms[i].dataPoints]
    ELSE FindMetric(ms, i + 1, metric)

\* lines 36-38: find(...) of no match is undefined, whose .dataPoints throws
getMeasurement(measurements, metric) ==
    FindMetric(measurements.measurements, 1, metric)

RECURSIVE SumValues(_)
SumValues(datapoints) ==
    IF datapoints = <<>> THEN 0
    ELSE Head(datapoints).value + SumValues(Tail(datapoints))

\* lines 40-45: total / length, 0 / 0 being NaN
getDatapointsAvg(datapoints) ==
    IF Len(datapoints) = 0 THEN NaN
    ELSE Num(SumValues(datapoints) \div Len(datapoints))

\* lines 47-51
getMemoryUsage(measurements) ==
    LET m == getMeasurement(measurements, MemoryMetric)
    IN  IF m.kind = "throw" THEN Throw
        ELSE [kind |-> "ok", v |-> getDatapointsAvg(m.dataPoints)]

\* x + y of two numbers
NumAdd(x, y) == IF x.nan \/ y.nan THEN NaN ELSE Num(x.v + y.v)

RECURSIVE CpuFrom(_, _, _)
\* lines 56-60: the loop from metric i on, totalUsage so far
CpuFrom(measurements, i, totalUsage) ==
    IF i > Len(CpuMetrics) THEN [kind |-> "ok", v |-> totalUsage]
    ELSE LET m == getMeasurement(measurements, CpuMetrics[i])
         IN  IF m.kind = "throw" THEN Throw
             ELSE CpuFrom(measurements, i + 1,
                          NumAdd(totalUsage, getDatapointsAvg(m.dataPoints)))

\* lines 53-62
getCpuUsage(measurements) == CpuFrom(measurements, 1, Num(0))

-----------------------------------------------------------------------------
(* fetch and the per-process callback, lines 71-84 and 152-177 *)

NoValue == [kind |-> "none"]

\* lines 75-83: what fetch returns for a response
Fetch(resp) ==
    IF "error" \in resp.keys THEN [undefined |-> TRUE, value |-> NoValue]
    ELSE IF "results" \in resp.keys
      THEN [undefined |-> FALSE, value |-> resp.results]
    ELSE [undefined |-> FALSE, value |-> resp]

\* lines 155-176: the callback once fetch has returned measurements; reading
\* a property of undefined throws a TypeError, which rejects the callback
ProcessUsage(p, fetched) ==
    IF fetched.undefined THEN [kind |-> "throw", value |-> NoValue]
    ELSE
    LET measurements == fetched.value
        memoryUsage  == getMemoryUsage(measurements)
        cpuUsage     == getCpuUsage(measurements)
        hardware     == HardwareSpec(p.providerSettings.instanceSizeName,
                                     p.providerSettings.providerName)
    IN  IF memoryUsage.kind = "throw" \/ cpuUsage.kind = "throw"
           \/ hardware.kind = "missing"
          THEN [kind |-> "throw", value |-> NoValue]
        ELSE [kind |-> "ok", value |->
               [processId        |-> p.id,
                clusterName      |-> p.cluster,
                providerName     |-> toUpperCase(p.providerSettings.providerName),
                instanceSizeName |-> p.providerSettings.instanceSizeName,
                region           |-> p.providerSettings.regionName,
                memoryUsageGb    |-> IF memoryUsage.v.nan THEN NaN
                                     ELSE Num(memoryUsage.v.v \div 1000000),
                cpuUsage         |-> cpuUsage.v,
                diskSizeGb       |-> p.diskSizeGb,
                nCpu             |-> hardware.CPU,
                memoryAvail      |-> hardware.memory,
                PUE              |-> p.PUE,
                gCO2ekWh         |-> p.gCO2ekWh]]

\* line 187: the energy of one process, in 10^-13 g: the bracket is in
\* 10^-4 W, PUE and gCO2ekWh are in thousandths, and 0.001 is 10^-3
Energy(p) ==
    IF p.cpuUsage.nan \/ p.PUE.nan \/ p.gCO2ekWh.nan THEN BigNaN
    ELSE LET watts == p.nCpu * 124 * p.cpuUsage.v + p.memoryAvail * 3725
                      + p.diskSizeGb * 10
         IN  BigNum(BigMulInt(BigMulInt(BigMulInt(BigOfInt(RunningTimeHours),
                                                  watts), p.PUE.v), p.gCO2ekWh.v))

RECURSIVE Reduce(_, _, _)
\* line 191: energies.reduce((a, b) => a + b) from element i on
Reduce(energies, i, acc) ==
    IF i > Len(energies) THEN acc
    ELSE Reduce(energies, i + 1, JsAdd(acc, energies[i]))

-----------------------------------------------------------------------------
(* Inputs: the reference tables and what the Atlas API answers *)

MaxRows == 2

MaxClusters == 2

MaxProcesses == 3

SeqsUpTo(S, n) == UNION {[1..k -> S] : k \in 0..n}

Aws == <<"A", "W", "S">>

UsEast == <<"u", "s", "-", "1">>

\* rows of cloudProviders_datacenters.csv after split(","): provider, region,
\* carbon-intensity key, three more fields, PUE
DcRows ==
    { <<Aws, <<"U", "S", "_", "1">>, <<"K", "1">>, <<>>, <<>>, <<>>, <<"1", ".", "5">>>>,
      <<<<"a", "w", "s">>, <<"u", "s", " ", "1">>, <<"K", "2">>, <<>>, <<>>, <<>>, <<>>>>,
      <<Aws, <<"u", "s", "1">>, <<"K", "1">>>>,
      <<Aws, <<"u", "-", "s", "-", "1">>, <<"K", "3">>, <<>>, <<>>, <<>>, <<"x">>>>,
      <<<<"G", "C", "P">>, <<"e", "u", "1">>, <<"K", "1">>, <<>>, <<>>, <<>>, <<" ", "2">>, <<>>>>,
      <<<<>>>> }

\* tables of CI_aggregated.csv after split(","): key, three fields, gCO2e/kWh
CiTables ==
    { <<>>,
      << <<<<"K", "1">>, <<>>, <<>>, <<>>, <<"1", "1", ".", "2", "5">>>>, <<<<>>>> >>,
      << <<<<"K", "1">>, <<>>>>,
         <<<<"K", "1">>, <<>>, <<>>, <<>>, <<"9">>>>,
         <<<<"K", "2">>, <<>>, <<>>, <<>>, <<"n", "a">>>> >> }

Cluster(name, provider, region, instance, disk, uri) ==
    [name |-> name,
     providerSettings |-> [providerName |-> provider, regionName |-> region,
                           instanceSizeName |-> instance],
     diskSizeGB |-> disk, mongoURI |-> uri]

OneHost == <<"mongodb://", "h1">>

TwoHosts == <<"mongodb://", "h1", ",", "h2">>

\* the clusters of a project with one cluster: provider and region vary
ResolveClusters ==
    { Cluster("c", pr, rg, "M10", 10, OneHost) :
        pr \in {<<"a", "w", "s">>, <<"G", "C", "P">>,
                 <<"a", "z", "u", "r", "e">>, <<>>},
        rg \in {UsEast, <<"U", "S", "_", "1">>, <<"e", "u", "-", "1">>} }

\* the clusters of a fleet: tier, hardware profile and hosts vary
FleetClusters ==
    { Cluster("free", Aws, UsEast, "M0", 1, TwoHosts),
      Cluster("a", Aws, UsEast, "M10", 10, TwoHosts),
      Cluster("b", <<"G", "C", "P">>, <<"e", "u", "-", "1">>, "M10", 20, OneHost),
      Cluster("c", <<"a", "w", "s">>, UsEast, "M30", 40, <<"h3">>) }

FleetDc ==
    << <<Aws, <<"U", "S", "_", "1">>, <<"K", "1">>, <<>>, <<>>, <<>>, <<"1", ".", "5">>>>,
       <<<<>>>> >>

FleetCi == << <<<<"K", "1">>, <<>>, <<>>, <<>>, <<"1", "1", ".", "2", "5">>>>, <<<<>>>> >>

Samples(values) ==
    [i \in 1..Len(values) |-> [timestamp |-> i, value |-> values[i]]]

\* a measurements payload with the given user-CPU samples, in thousandths
Measurements(user) ==
    [keys |-> {"measurements", "processId"},
     measurements |->
        <<[name |-> MemoryMetric, dataPoints |-> Samples(<<2000000, 4000000>>)]>>
        \o <<[name |-> CpuMetrics[1], dataPoints |-> Samples(user)]>>
        \o [i \in 1..(Len(CpuMetrics) - 1) |->
               [name |-> CpuMetrics[i + 1], dataPoints |-> Samples(<<10>>)]]]

\* a payload that lacks the last CPU metric
MissingMetric ==
    [keys |-> {"measurements", "processId"},
     measurements |-> SubSeq(Measurements(<<100>>).measurements, 1, Len(CpuMetrics))]

ErrorPayload == [keys |-> {"error", "detail"}, measurements |-> <<>>]

MeasurementResponses ==
    { Measurements(<<>>), Measurements(<<100>>), Measurements(<<100, 300>>),
      MissingMetric, ErrorPayload }

-----------------------------------------------------------------------------
(* main(), lines 64-200 *)

NoReport == [kind |-> "none", total |-> BigNaN]

Report(t) == [kind |-> "report", total |-> t]

PendingTask == [fetch |-> "pending", state |-> "pending",
                resp |-> NoValue, value |-> NoValue]

InitMain ==
    /\ pc = "groups"
    /\ clusters = <<>>
    /\ processes = <<>>
    /\ tasks = <<>>
    /\ all = "none"
    /\ stderr = 0
    /\ totalCarbon = NoReport

\* the processes the clusters cs hold
FleetSize(cs) ==
    Len(MapClusters(cs, 1, <<>>, <<>>, <<FleetDc, FleetCi>>).processes)

\* a fleet of up to MaxClusters clusters and MaxProcesses processes over
\* fixed reference tables
Init ==
    /\ cloudProviders = FleetDc
    /\ ciAggregated = FleetCi
    /\ atlas \in {cs \in SeqsUpTo(FleetClusters, MaxClusters) :
                    FleetSize(cs) <= MaxProcesses}
    /\ InitMain

\* one cluster over every reference table of up to MaxRows rows
InitResolve ==
    /\ cloudProviders \in SeqsUpTo(DcRows, MaxRows)
    /\ ciAggregated \in CiTables
    /\ atlas \in {<<c>> : c \in ResolveClusters}
    /\ InitMain

\* lines 86-95: the groups arrive ("ok"), as an error payload ("error") or
\* not at all ("reject"), and the user picks one or cancels (index -1)
FetchGroups ==
    /\ pc = "groups"
    /\ \E outcome \in {"ok", "error", "reject"}, picked \in BOOLEAN :
         /\ stderr' = IF outcome = "error" THEN stderr + 1 ELSE stderr
         /\ pc' = IF outcome = "ok" /\ picked THEN "clusters" ELSE "rejected"
    /\ UNCHANGED <<cloudProviders, ciAggregated, atlas, clusters, processes,
                   tasks, all, totalCarbon>>

\* line 95 failing: an error payload leaves clusters undefined and
\* clusters.map (line 100) throws; a transport failure rejects the await
ClustersFail ==
    /\ pc = "clusters"
    /\ \E outcome \in {"error", "reject"} :
         stderr' = IF outcome = "error" THEN stderr + 1 ELSE stderr
    /\ pc' = "rejected"
    /\ UNCHANGED <<cloudProviders, ciAggregated, atlas, clusters, processes,
                   tasks, all, totalCarbon>>

\* lines 95-152: the clusters arrive, are mapped to processes, and one
\* callback per process is started, each issuing its fetch
ClustersArrive ==
    /\ pc = "clusters"
    /\ LET fetched == Fetch([keys |-> {"results", "links", "totalCount"},
                             results |-> atlas])
           m == MapClusters(fetched.value, 1, <<>>, <<>>,
                            <<cloudProviders, ciAggregated>>)
       IN  /\ clusters' = m.clusters
           /\ processes' = m.processes
           /\ IF m.kind = "throw"
                THEN /\ pc' = "rejected"
                     /\ UNCHANGED <<tasks, all>>
                ELSE /\ pc' = "awaitAll"
                     /\ tasks' = [i \in 1..Len(m.processes) |-> PendingTask]
                     /\ all' = IF Len(m.processes) = 0 THEN "fulfilled"
                               ELSE "pending"
    /\ UNCHANGED <<cloudProviders, ciAggregated, atlas, stderr, totalCarbon>>

\* Promise.all (line 152) after callback i has settled as ts[i]
AllAfter(ts, i) ==
    IF all # "pending" THEN all
    ELSE IF ts[i].state = "rejected" THEN "rejected"
    ELSE IF \A j \in 1..Len(ts) : ts[j].state = "fulfilled" THEN "fulfilled"
    ELSE "pending"

\* an error payload swallowed: the callback is fulfilled with the estimate
\* of an empty sample series
SettleSwallowsError(p, resp) ==
    LET fetched == Fetch(resp)
        u       == ProcessUsage(p, IF fetched.undefined
                                   THEN Fetch(Measurements(<<>>)) ELSE fetched)
    IN  [fetch |-> IF fetched.undefined THEN "undefined" ELSE "returned",
         state |-> IF u.kind = "throw" THEN "rejected" ELSE "fulfilled",
         resp  |-> resp,
         value |-> u.value]

\* the callbacks sharing one descriptor: each reads the first process
SettleSharedDescriptor(p, resp) ==
    LET fetched == Fetch(resp)
        u       == ProcessUsage(processes[1], fetched)
    IN  [fetch |-> IF fetched.undefined THEN "undefined" ELSE "returned",
         state |-> IF u.kind = "throw" THEN "rejected" ELSE "fulfilled",
         resp  |-> resp,
         value |-> u.value]

\* lines 154-177: what callback i becomes when its fetch returns
Settle(p, resp) ==
    LET fetched == Fetch(resp)
        u       == ProcessUsage(p, fetched)
    IN  [fetch |-> IF fetched.undefined THEN "undefined" ELSE "returned",
         state |-> IF u.kind = "throw" THEN "rejected" ELSE "fulfilled",
         resp  |-> resp,
         value |-> u.value]

\* the main() side of a settled Promise.all: a rejection rejects main()
MainAfter(a) == IF pc = "awaitAll" /\ a = "rejected" THEN "rejected" ELSE pc

\* lines 154-177: the measurements of process i arrive
MeasurementsArrive(i) ==
    /\ pc \in {"awaitAll", "rejected"}
    /\ i \in 1..Len(tasks)
    /\ tasks[i].fetch = "pending"
    /\ \E resp \in MeasurementResponses :
         LET ts == [tasks EXCEPT ![i] = Settle(processes[i], resp)]
         IN  /\ tasks' = ts
             /\ all' = AllAfter(ts, i)
             /\ pc' = MainAfter(AllAfter(ts, i))
             /\ stderr' = IF ts[i].fetch = "undefined" THEN stderr + 1
                          ELSE stderr
    /\ UNCHANGED <<cloudProviders, ciAggregated, atlas, clusters, processes,
                   totalCarbon>>

\* line 75 rejecting: the request of process i fails in transport
MeasurementsFail(i) ==
    /\ pc \in {"awaitAll", "rejected"}
    /\ i \in 1..Len(tasks)
    /\ tasks[i].fetch = "pending"
    /\ LET ts == [tasks EXCEPT ![i] = [fetch |-> "rejected", state |-> "rejected",
                                       resp |-> NoValue, value |-> NoValue]]
       IN  /\ tasks' = ts
           /\ all' = AllAfter(ts, i)
           /\ pc' = MainAfter(AllAfter(ts, i))
    /\ UNCHANGED <<cloudProviders, ciAggregated, atlas, clusters, processes,
                   stderr, totalCarbon>>

\* lines 186-189
Energies(processUsage) ==
    [i \in 1..Len(processUsage) |-> Energy(processUsage[i])]

\* reduce given the initial value 0: an empty fleet reports a total of zero
AggregateFromZero ==
    /\ pc = "awaitAll"
    /\ all = "fulfilled"
    /\ LET processUsage == [i \in 1..Len(tasks) |-> tasks[i].value]
       IN  /\ pc' = "done"
           /\ totalCarbon' = Report(Reduce(Energies(processUsage), 1, BigNum(<<>>)))
    /\ UNCHANGED <<cloudProviders, ciAggregated, atlas, clusters, processes,
                   tasks, all, stderr>>

\* lines 179-199: every callback is fulfilled; reduce of an empty array
\* without an initial value throws a TypeError
Aggregate ==
    /\ pc = "awaitAll"
    /\ all = "fulfilled"
    /\ LET processUsage == [i \in 1..Len(tasks) |-> tasks[i].value]
           energies     == Energies(processUsage)
       IN  IF Len(energies) = 0
             THEN /\ pc' = "rejected"
                  /\ UNCHANGED totalCarbon
             ELSE /\ pc' = "done"
                  /\ totalCarbon' = Report(Reduce(energies, 2, energies[1]))
    /\ UNCHANGED <<cloudProviders, ciAggregated, atlas, clusters, processes,
                   tasks, all, stderr>>

Next ==
    \/ FetchGroups
    \/ ClustersFail
    \/ ClustersArrive
    \/ \E i \in 1..Len(tasks) : MeasurementsArrive(i)
    \/ \E i \in 1..Len(tasks) : MeasurementsFail(i)
    \/ Aggregate

Spec == Init /\ [][Next]_vars

SpecResolve == InitResolve /\ [][Next]_vars

-----------------------------------------------------------------------------
(* What the claims speak of, stated apart from the operators above *)

Gcp == <<"G", "C", "P">>

Azure == <<"A", "Z", "U", "R", "E">>

Procs == {processes[i] : i \in 1..Len(processes)}

\* a name without its separators, upper-cased
Normalized(s) == SelectSeq(toUpperCase(s), LAMBDA ch : ch \notin {"_", "-", " "})

\* row is a datacenter row for the provider and region of ps
Matches(row, ps) ==
    /\ Len(row) >= 2
    /\ toUpperCase(row[1]) = toUpperCase(ps.providerName)
    /\ Normalized(row[2]) = Normalized(ps.regionName)

MatchIdx(ps) == {k \in 1..Len(cloudProviders) : Matches(cloudProviders[k], ps)}

FirstOf(S) == CHOOSE k \in S : \A j \in S : k <= j

FirstRow(ps) == cloudProviders[FirstOf(MatchIdx(ps))]

\* the provider default of the specification, in thousandths
ProviderDefault(name) ==
    LET u == toUpperCase(name)
    IN  CASE u = Gcp -> 1110 [] u = Azure -> 1125 [] u = Aws -> 1200
          [] OTHER -> 1670

\* no carbon-intensity row has the join key of the datacenter row
NoCiRow(row) ==
    \A j \in 1..Len(ciAggregated) :
        Len(row) < 3 \/ ciAggregated[j][1] # row[3]

\* C1: a process of a cluster that no datacenter row matches has carbon
\* intensity 475 and the default PUE of its provider, whatever the tables hold
C1_NoMatchFallback ==
    \A p \in Procs :
        MatchIdx(p.providerSettings) = {}
        => /\ p.gCO2ekWh = Num(475000)
           /\ p.PUE = Num(ProviderDefault(p.providerSettings.providerName))

\* a process pushed for a provider that has rows, none of them for its region
C1_Witness ==
    \E p \in Procs :
        /\ MatchIdx(p.providerSettings) = {}
        /\ \E k \in 1..Len(cloudProviders) :
              /\ Len(cloudProviders[k]) >= 7
              /\ toUpperCase(cloudProviders[k][1])
                   = toUpperCase(p.providerSettings.providerName)
        /\ ciAggregated # <<>>
        /\ p.PUE = Num(1110)

\* C2: with a matching datacenter row whose key has no carbon-intensity row,
\* the carbon intensity is 475 and the PUE is the row's override when that
\* field is non-empty and the provider default otherwise
C2_KeyMissFallback ==
    \A p \in Procs :
        LET ps == p.providerSettings
        IN  (MatchIdx(ps) # {} /\ NoCiRow(FirstRow(ps)))
            => /\ p.gCO2ekWh = Num(475000)
               /\ p.PUE = IF Len(FirstRow(ps)) >= 7 /\ FirstRow(ps)[7] # <<>>
                           THEN ParseFloatStr(FirstRow(ps)[7])
                           ELSE Num(ProviderDefault(ps.providerName))

\* C3: the PUE and the carbon intensity of every process descriptor, and so
\* of every estimate, are numbers (never NaN)
C3_AlwaysNumeric ==
    /\ \A p \in Procs : IsNumeric(p.PUE) /\ IsNumeric(p.gCO2ekWh)
    /\ \A i \in 1..Len(tasks) :
          tasks[i].state = "fulfilled"
          => IsNumeric(tasks[i].value.PUE) /\ IsNumeric(tasks[i].value.gCO2ekWh)

RegionVariants ==
    { UsEast, <<"U", "S", "_", "1">>, <<"u", "s", "1">>, <<"u", " ", "s", "-", "1">>,
      <<"e", "u", "-", "1">>, <<"E", "U", "1">>, <<"e", "u", "_", "_", "1">> }

\* C6: region names equal up to case and separators select the same
\* datacenter row, the first row of the table that matches up to case and
\* separators, and a normalized name is its own normal form
C6_RegionInsensitive ==
    \A p \in Procs :
        LET ps    == p.providerSettings
            found == FindCloudProvider(cloudProviders, toUpperCase(ps.providerName),
                                       toUpperCase(ps.regionName))
        IN  /\ found = IF MatchIdx(ps) = {} THEN NoRow
                       ELSE [kind |-> "found", row |-> FirstRow(ps)]
            /\ \A r \in RegionVariants :
                  Normalized(r) = Normalized(ps.regionName)
                  => /\ FindCloudProvider(cloudProviders, toUpperCase(ps.providerName),
                                          toUpperCase(r)) = found
                     /\ LET q == Resolve([ps EXCEPT !.regionName = r],
                                         cloudProviders, ciAggregated)
                        IN  q.PUE = p.PUE /\ q.gCO2ekWh = p.gCO2ekWh
            /\ StripSeparators(StripSeparators(toUpperCase(ps.regionName)))
                 = StripSeparators(toUpperCase(ps.regionName))
            /\ toUpperCase(StripSeparators(toUpperCase(ps.regionName)))
                 = StripSeparators(toUpperCase(ps.regionName))

\* a process whose region is spelled unlike the row it selects, the second
\* matching row of the table being passed over
C6_Witness ==
    \E p \in Procs :
        LET ps == p.providerSettings
        IN  /\ Cardinality(MatchIdx(ps)) = 2
            /\ FirstRow(ps)[2] # ps.regionName
            /\ toUpperCase(FirstRow(ps)[2]) # toUpperCase(ps.regionName)
            /\ FirstRow(ps)[1] # ps.providerName
            /\ Len(FirstRow(ps)) >= 7
            /\ p.PUE = Num(1500)

\* C7: where no datacenter row overrides it, the PUE of a process is 1.11
\* for GCP, 1.125 for AZURE, 1.2 for AWS and 1.67 for any other provider
\* name, the name compared without regard to case
C7_DefaultPUE ==
    \A p \in Procs :
        LET ps == p.providerSettings
            u  == toUpperCase(ps.providerName)
        IN  (MatchIdx(ps) = {}
             \/ (Len(FirstRow(ps)) >= 7 /\ FirstRow(ps)[7] = <<>>))
            => /\ p.PUE \in {Num(1110), Num(1125), Num(1200), Num(1670)}
               /\ (p.PUE = Num(1110)) <=> (u = Gcp)
               /\ (p.PUE = Num(1125)) <=> (u = Azure)
               /\ (p.PUE = Num(1200)) <=> (u = Aws)
               /\ (p.PUE = Num(1670)) <=> (u \notin {Gcp, Azure, Aws})

\* a process of provider "azure", spelled in lower case, with PUE 1.125
C7_Witness ==
    \E p \in Procs :
        /\ p.providerSettings.providerName = <<"a", "z", "u", "r", "e">>
        /\ p.PUE = Num(1125)
        /\ cloudProviders # <<>>

-----------------------------------------------------------------------------
(* The fleet *)

TaskIdx == 1..Len(tasks)

\* the fetch of callback i was answered by an error payload
GotErrorPayload(i) == tasks[i].fetch = "undefined"

\* C4: once a measurement fetch is answered by an error payload, its callback
\* is rejected, the combined wait and main() are rejected with it, the error
\* is printed, and no total is reported
C4_ErrorPayloadAborts ==
    \A i \in TaskIdx :
        GotErrorPayload(i)
        => /\ tasks[i].state = "rejected"
           /\ all = "rejected"
           /\ pc = "rejected"
           /\ stderr > 0
           /\ totalCarbon = NoReport

\* an error payload arrives after another process's estimate was built
C4_Witness ==
    \E i, j \in TaskIdx :
        /\ GotErrorPayload(i)
        /\ tasks[j].state = "fulfilled"
        /\ \A k \in TaskIdx : tasks[k].fetch # "pending"

\* the hosts of a mongoURI: one more than its commas
HostCount(uri) == 1 + Cardinality({k \in 1..Len(uri) : uri[k] = ","})

Occurrences(c) == Cardinality({k \in 1..Len(atlas) : atlas[k] = c})

LowTier(c) == c.providerSettings.instanceSizeName \in {"M0", "M2", "M5"}

LocalError(i) == tasks[i].fetch = "returned" /\ tasks[i].state = "rejected"

\* C8: a missing hardware profile or a missing metric is local to its
\* process: when some callback fails so and no fetch has failed, neither the
\* combined wait nor main() is aborted
C8_ErrorsAreLocal ==
    (/\ \E i \in TaskIdx : LocalError(i)
     /\ \A i \in TaskIdx : tasks[i].fetch \in {"pending", "returned"})
    => all # "rejected" /\ pc # "rejected"

RECURSIVE SumFrom(_, _)
\* the sum of the energies of usage from element i on
SumFrom(usage, i) ==
    IF i = Len(usage) THEN Energy(usage[i])
    ELSE JsAdd(Energy(usage[i]), SumFrom(usage, i + 1))

\* C9: with no process the total is never reported and main() ends in an
\* error; a reported total is the sum of the energies of all processes
C9_EmptyRaises ==
    /\ Len(processes) = 0 => totalCarbon = NoReport /\ pc # "done"
    /\ (all = "fulfilled" /\ Len(tasks) = 0) => pc \in {"awaitAll", "rejected"}
    /\ totalCarbon # NoReport
         => /\ Len(tasks) > 0
            /\ totalCarbon = Report(SumFrom([i \in TaskIdx |-> tasks[i].value], 1))

\* a project whose clusters are all M0: the reduction has thrown
C9_Witness ==
    /\ Len(atlas) > 0
    /\ all = "fulfilled"
    /\ Len(tasks) = 0
    /\ pc = "rejected"

\* the estimate of callback i, from its own descriptor and response only
OwnEstimate(i) == ProcessUsage(processes[i], Fetch(tasks[i].resp)).value

\* C10: one callback and fetch per process; the total is computed only when
\* every fetch has returned; each estimate is that of the process's own
\* descriptor and measurements; and the total is the sum over the processes
\* in list order, whatever the order of arrival was
C10_FanOutFanIn ==
    /\ all # "none" => Len(tasks) = Len(processes)
    /\ (all = "fulfilled" \/ totalCarbon # NoReport)
         => \A i \in TaskIdx :
               tasks[i].fetch = "returned" /\ tasks[i].state = "fulfilled"
    /\ \A i \in TaskIdx :
          tasks[i].state = "fulfilled"
          => /\ tasks[i].value = OwnEstimate(i)
             /\ tasks[i].value.processId = processes[i].id
             /\ tasks[i].value.clusterName = processes[i].cluster
             /\ tasks[i].value.diskSizeGb = processes[i].diskSizeGb
             /\ tasks[i].value.PUE = processes[i].PUE
             /\ tasks[i].value.gCO2ekWh = processes[i].gCO2ekWh
             /\ tasks[i].value.cpuUsage = getCpuUsage(tasks[i].resp).v
    /\ totalCarbon # NoReport
         => totalCarbon = Report(SumFrom([i \in TaskIdx |-> OwnEstimate(i)], 1))

\* a total reported over three processes of two clusters whose measurements
\* differ
C10_Witness ==
    /\ pc = "done"
    /\ Len(tasks) = 3
    /\ \E i, j \in TaskIdx :
          /\ tasks[i].resp # tasks[j].resp
          /\ processes[i].cluster # processes[j].cluster
    /\ ~totalCarbon.total.nan

====
